---- MODULE Spec2Model ----
(***************************************************************************)
(* Barkus PDF barcode splitter: the per-page barcode detection retry loop  *)
(* (barkus_modules/barcode_detector.py), the grouping of pages by barcode  *)
(* key and the policies that fold pages without barcodes into the groups   *)
(* (barkus_modules/pdf_processor.py), driven by                            *)
(* BarkusApplication.process_pdf (barkus_modules/application.py).          *)
(*                                                                         *)
(* Texts are sequences of one-character strings.  A Python dict is a       *)
(* sequence of entries in insertion order.  Page numbers are 0-based as in *)
(* the source; page p of the document is images[p + 1].                    *)
(***************************************************************************)
EXTENDS Integers, Sequences, FiniteSets, TLC

\* ------------------------------------------------------------------ bounds
MaxPages == 3
MaxRetries == 2
MaxCodes == 2
MaxPotential == 1
MaxWriteFailures == 1

\* BarcodeDetector.__init__(max_retries = 10)
DefaultMaxRetries == 10

\* ------------------------------------------------------------------- texts
None == <<"<None>">>
UNKNOWN == <<"U", "N", "K", "N", "O", "W", "N">>
NO_BARCODE == <<"N", "O", "_", "B", "A", "R", "C", "O", "D", "E">>

DO1 == <<"D", "O", "1">>
DO2 == <<"d", "o", "2">>
DO3 == <<"3">>
ACME == <<"A", "C">>
BETA == <<"B">>
EMPTY_TEXT == <<>>
SPACE_TEXT == <<" ">>

LowerChars == <<"a", "b", "c", "d", "e", "f", "g", "h", "i", "j", "k", "l", "m",
                "n", "o", "p", "q", "r", "s", "t", "u", "v", "w", "x", "y", "z">>
UpperChars == <<"A", "B", "C", "D", "E", "F", "G", "H", "I", "J", "K", "L", "M",
                "N", "O", "P", "Q", "R", "S", "T", "U", "V", "W", "X", "Y", "Z">>
Digits == {"0", "1", "2", "3", "4", "5", "6", "7", "8", "9"}
Whitespace == {" ", "\t", "\n", "\r"}

\* str.upper() on one character
UpperChar(c) ==
    IF \E i \in 1..26 : LowerChars[i] = c
    THEN UpperChars[CHOOSE i \in 1..26 : LowerChars[i] = c]
    ELSE c

upper(text) == [i \in 1..Len(text) |-> UpperChar(text[i])]

RECURSIVE lstrip(_)
lstrip(text) ==
    IF text # <<>> /\ Head(text) \in Whitespace THEN lstrip(Tail(text)) ELSE text

RECURSIVE rstrip(_)
rstrip(text) ==
    IF text # <<>> /\ text[Len(text)] \in Whitespace
    THEN rstrip(SubSeq(text, 1, Len(text) - 1))
    ELSE text

\* str.strip()
strip(text) == rstrip(lstrip(text))

startswith(text, prefix) ==
    /\ Len(text) >= Len(prefix)
    /\ SubSeq(text, 1, Len(prefix)) = prefix

\* mutant: the text is compared as it is, without upper-casing
is_delivery_number_case_sensitive(barcode_text) ==
    IF barcode_text = None \/ barcode_text = <<>>
    THEN FALSE
    ELSE LET text == strip(barcode_text)
         IN  IF text = <<>>
             THEN FALSE
             ELSE startswith(text, <<"D", "O">>) \/ text[1] \in Digits

\* BarcodeClassifier.is_delivery_number
is_delivery_number(barcode_text) ==
    IF barcode_text = None \/ barcode_text = <<>>
    THEN FALSE
    ELSE LET text == upper(strip(barcode_text))
         IN  IF text = <<>>
             THEN FALSE
             ELSE startswith(text, <<"D", "O">>) \/ text[1] \in Digits

\* ---------------------------------------------------------------- statuses
SUCCESS == "success"
NO_PATTERNS_FOUND == "no_patterns_found"
PATTERNS_UNREADABLE == "patterns_unreadable"
PATTERNS_CORRUPTED == "patterns_corrupted"
MULTIPLE_CONFLICTS == "multiple_conflicts"
RETRY_EXHAUSTED == "retry_exhausted"

BarcodeDetectionStatus ==
    {SUCCESS, NO_PATTERNS_FOUND, PATTERNS_UNREADABLE, PATTERNS_CORRUPTED,
     MULTIPLE_CONFLICTS, RETRY_EXHAUSTED}

\* error_details: None, "Found <count> corrupted barcodes", or str(exception)
NoError == [kind |-> "None", count |-> 0]
CorruptedError(n) == [kind |-> "Found corrupted barcodes", count |-> n]
ExceptionError == [kind |-> "exception", count |-> 0]

\* VerbosityHandler: the message methods the class defines (info, warning,
\* error). A call of any other method, such as vh.debug(...), raises
\* AttributeError, whose text becomes the error_details of the except clauses.
VerbosityHandler == {"info", "warning", "error"}
accepts(level) == level \in VerbosityHandler
AttributeError == [kind |-> "AttributeError", count |-> 0]

\* BarcodeDetectionResult() with the dataclass defaults
BarcodeDetectionResult ==
    [delivery_number |-> None,
     customer_name |-> None,
     detection_status |-> NO_PATTERNS_FOUND,
     patterns_found |-> 0,
     readable_patterns |-> 0,
     retry_count |-> 0,
     error_details |-> NoError]

has_complete_barcodes(r) ==
    /\ r.delivery_number # None
    /\ r.customer_name # None
    /\ r.detection_status = SUCCESS

has_any_barcode(r) == r.delivery_number # None \/ r.customer_name # None

\* mutant: every result without success is retried
needs_retry_unless_success(r) == r.detection_status # SUCCESS

\* BarcodeDetectionResult.needs_retry
needs_retry(r) == r.detection_status \in {PATTERNS_UNREADABLE, PATTERNS_CORRUPTED}

\* ------------------------------------------------------------ the decoder
\* What one call of _detect_barcode_patterns meets on an (enhanced) image:
\* zxingcpp.read_barcodes raises, or returns the texts it decoded, and the
\* contour heuristic counts potential_patterns barcode-like regions.
DecoderOutcome(raises, potential, texts) ==
    [raises |-> raises, potential_patterns |-> potential, texts |-> texts]

RaisingOutcome == DecoderOutcome(TRUE, 0, <<>>)

SeqsUpTo(S, n) == UNION {[1..k -> S] : k \in 0..n}

DetectTexts == {DO1, DO2, ACME, EMPTY_TEXT, SPACE_TEXT}

Outcomes ==
    {RaisingOutcome} \cup
    {DecoderOutcome(FALSE, p, t) : p \in 0..MaxPotential, t \in SeqsUpTo(DetectTexts, MaxCodes)}

\* _detect_barcode_patterns: (total_patterns, detected_barcodes)
detect_barcode_patterns(o) ==
    [total_patterns |-> IF Len(o.texts) >= o.potential_patterns
                        THEN Len(o.texts) ELSE o.potential_patterns,
     detected_barcodes |-> o.texts]

is_blank(text) == text = None \/ text = <<>> \/ strip(text) = <<>>

invalid_barcodes(detected) == SelectSeq(detected, is_blank)
IsDeliveryText(text) == ~is_blank(text) /\ is_delivery_number(text)
IsCustomerText(text) == ~is_blank(text) /\ ~is_delivery_number(text)
delivery_barcodes(detected) == SelectSeq(detected, IsDeliveryText)
customer_barcodes(detected) == SelectSeq(detected, IsCustomerText)

\* _detect_barcodes_from_image
detect_barcodes_from_image(o) ==
    IF o.raises
    THEN [BarcodeDetectionResult EXCEPT !.detection_status = PATTERNS_CORRUPTED,
                                        !.error_details = ExceptionError]
    ELSE
    LET pat == detect_barcode_patterns(o)
        detected == pat.detected_barcodes
        r0 == [BarcodeDetectionResult EXCEPT !.patterns_found = pat.total_patterns,
                                             !.readable_patterns = Len(detected)]
        inv == invalid_barcodes(detected)
        dels == delivery_barcodes(detected)
        custs == customer_barcodes(detected)
        r1 == IF inv # <<>>
              THEN [r0 EXCEPT !.detection_status = PATTERNS_CORRUPTED,
                              !.error_details = CorruptedError(Len(inv))]
              ELSE r0
        r2 == IF dels # <<>> THEN [r1 EXCEPT !.delivery_number = dels[1]] ELSE r1
        r3 == IF custs # <<>> THEN [r2 EXCEPT !.customer_name = custs[1]] ELSE r2
    IN  IF pat.total_patterns = 0
        THEN IF accepts("debug")
             THEN [r0 EXCEPT !.detection_status = NO_PATTERNS_FOUND]
             ELSE [BarcodeDetectionResult EXCEPT !.detection_status = PATTERNS_CORRUPTED,
                                                 !.error_details = AttributeError]
        ELSE IF Len(detected) = 0
        THEN [r0 EXCEPT !.detection_status = PATTERNS_UNREADABLE]
        ELSE IF has_complete_barcodes(r3)
        THEN [r3 EXCEPT !.detection_status = SUCCESS]
        ELSE IF has_any_barcode(r3)
        THEN [r3 EXCEPT !.detection_status = SUCCESS]
        ELSE r3

status_priority(s) ==
    CASE s = SUCCESS -> 5
      [] s = PATTERNS_CORRUPTED -> 4
      [] s = PATTERNS_UNREADABLE -> 3
      [] s = MULTIPLE_CONFLICTS -> 2
      [] s = NO_PATTERNS_FOUND -> 1
      [] s = RETRY_EXHAUSTED -> 0
      [] OTHER -> 0

barcode_count(r) ==
    (IF r.delivery_number # None THEN 1 ELSE 0) + (IF r.customer_name # None THEN 1 ELSE 0)

\* mutant: a result of equal status priority counts as better
is_better_result_or_equal(current, previous) ==
    IF has_complete_barcodes(current) /\ ~has_complete_barcodes(previous) THEN TRUE
    ELSE IF has_complete_barcodes(previous) /\ ~has_complete_barcodes(current) THEN FALSE
    ELSE IF barcode_count(current) > barcode_count(previous) THEN TRUE
    ELSE IF barcode_count(current) < barcode_count(previous) THEN FALSE
    ELSE status_priority(current.detection_status) >= status_priority(previous.detection_status)

\* _is_better_result
is_better_result(current, previous) ==
    IF has_complete_barcodes(current) /\ ~has_complete_barcodes(previous) THEN TRUE
    ELSE IF has_complete_barcodes(previous) /\ ~has_complete_barcodes(current) THEN FALSE
    ELSE IF barcode_count(current) > barcode_count(previous) THEN TRUE
    ELSE IF barcode_count(current) < barcode_count(previous) THEN FALSE
    ELSE status_priority(current.detection_status) > status_priority(previous.detection_status)

\* ------------------------------------------------------------------- dicts
\* barcode_pages: entries [key |-> <<delivery, customer>>, pages |-> list],
\* no_barcode_pages and page_barcodes: entries [page |-> p, result |-> r].
NoKey == <<>>

HasKey(d, k) == \E i \in 1..Len(d) : d[i].key = k
IndexOfKey(d, k) == CHOOSE i \in 1..Len(d) : d[i].key = k
PagesOf(d, k) == d[IndexOfKey(d, k)].pages
InList(p, list) == \E i \in 1..Len(list) : list[i] = p
HasPage(d, p) == \E i \in 1..Len(d) : d[i].page = p
ResultOf(d, p) == d[CHOOSE i \in 1..Len(d) : d[i].page = p].result
\* mutant: the keys are listed from the last inserted to the first
page_keys_reversed(d) == [i \in 1..Len(d) |-> d[Len(d) + 1 - i].page]

\* list(d.keys()): the page numbers in insertion order
page_keys(d) == [i \in 1..Len(d) |-> d[i].page]

\* mutant: the list is replaced by the page instead of being extended
append_page_overwrite(d, k, p) ==
    IF HasKey(d, k)
    THEN [d EXCEPT ![IndexOfKey(d, k)].pages = <<p>>]
    ELSE Append(d, [key |-> k, pages |-> <<p>>])

\* mutant: every page opens a new entry, equal keys are not merged
append_page_new_entry(d, k, p) == Append(d, [key |-> k, pages |-> <<p>>])

\* barcode_pages[k].append(p); a missing key is created (defaultdict(list))
append_page(d, k, p) ==
    IF HasKey(d, k)
    THEN [d EXCEPT ![IndexOfKey(d, k)].pages = Append(@, p)]
    ELSE Append(d, [key |-> k, pages |-> <<p>>])

\* d[k] = pages; an existing key keeps its position
set_pages(d, k, pages) ==
    IF HasKey(d, k)
    THEN [d EXCEPT ![IndexOfKey(d, k)].pages = pages]
    ELSE Append(d, [key |-> k, pages |-> pages])

\* x or 'UNKNOWN'
or_unknown(text) == IF text = None \/ text = <<>> THEN UNKNOWN ELSE text

RECURSIVE insert_sorted(_, _)
insert_sorted(list, p) ==
    IF list = <<>> THEN <<p>>
    ELSE IF p < Head(list) THEN <<p>> \o list
    ELSE <<Head(list)>> \o insert_sorted(Tail(list), p)

\* sorted(page_numbers)
RECURSIVE sorted(_)
sorted(list) ==
    IF list = <<>> THEN <<>>
    ELSE insert_sorted(sorted(SubSeq(list, 1, Len(list) - 1)), list[Len(list)])

\* ---------------------------------------------------------------- grouping
RECURSIVE group_loop(_, _, _, _)
group_loop(page_barcodes_, i, bp, nbp) ==
    IF i > Len(page_barcodes_)
    THEN [barcode_pages |-> bp, no_barcode_pages |-> nbp]
    ELSE LET e == page_barcodes_[i]
         IN  IF has_any_barcode(e.result)
             THEN group_loop(page_barcodes_, i + 1,
                             append_page(bp,
                                         <<or_unknown(e.result.delivery_number),
                                           or_unknown(e.result.customer_name)>>,
                                         e.page),
                             nbp)
             ELSE group_loop(page_barcodes_, i + 1, bp, Append(nbp, e))

\* mutant: the result map is scanned twice into the same buckets
group_pages_by_barcode_twice(page_barcodes_) ==
    group_loop(page_barcodes_, 1,
               group_loop(page_barcodes_, 1, <<>>, <<>>).barcode_pages, <<>>)

\* mutant: the pages without barcodes are not recorded
group_pages_by_barcode_drop_orphans(page_barcodes_) ==
    [group_loop(page_barcodes_, 1, <<>>, <<>>) EXCEPT !.no_barcode_pages = <<>>]

\* BarcodeDetector.group_pages_by_barcode
group_pages_by_barcode(page_barcodes_) == group_loop(page_barcodes_, 1, <<>>, <<>>)

IsValidKey(k) == ~(k[1] \in {None, UNKNOWN} \/ k[2] \in {None, UNKNOWN})
IsValidEntry(e) == IsValidKey(e.key)
IsInvalidEntry(e) == ~IsValidKey(e.key)

RECURSIVE concat_pages(_)
concat_pages(d) == IF d = <<>> THEN <<>> ELSE Head(d).pages \o concat_pages(Tail(d))

\* PDFProcessor._filter_valid_barcodes: (valid_barcode_pages, invalid_pages)
filter_valid_barcodes(bp) ==
    [valid_barcode_pages |-> SelectSeq(bp, IsValidEntry),
     invalid_pages |-> concat_pages(SelectSeq(bp, IsInvalidEntry))]

\* ------------------------------------------------------------ output files
invalid_chars == {"<", ">", ":", "\"", "/", "\\", "|", "?", "*"}
safe(text) == [i \in 1..Len(text) |-> IF text[i] \in invalid_chars THEN "_" ELSE text[i]]
DotPdf == <<".", "p", "d", "f">>

\* mutant: the delivery number comes first in the name
create_safe_filename_delivery_first(delivery_number, customer_name) ==
    IF delivery_number # UNKNOWN /\ customer_name # UNKNOWN
    THEN safe(delivery_number) \o <<"_">> \o safe(customer_name) \o DotPdf
    ELSE IF delivery_number # UNKNOWN THEN safe(delivery_number) \o DotPdf
    ELSE IF customer_name # UNKNOWN THEN safe(customer_name) \o DotPdf
    ELSE <<"u", "n", "k", "n", "o", "w", "n", "_", "b", "a", "r", "c", "o", "d", "e">> \o DotPdf

\* PDFProcessor._create_safe_filename
create_safe_filename(delivery_number, customer_name) ==
    IF delivery_number # UNKNOWN /\ customer_name # UNKNOWN
    THEN safe(customer_name) \o <<"_">> \o safe(delivery_number) \o DotPdf
    ELSE IF delivery_number # UNKNOWN THEN safe(delivery_number) \o DotPdf
    ELSE IF customer_name # UNKNOWN THEN safe(customer_name) \o DotPdf
    ELSE <<"u", "n", "k", "n", "o", "w", "n", "_", "b", "a", "r", "c", "o", "d", "e">> \o DotPdf

no_barcode_pdf == <<"n", "o", "_", "b", "a", "r", "c", "o", "d", "e">> \o DotPdf

\* The output directory: a set of [path, pages] with one entry per path.
\* PDFProcessor._create_pdf_from_pages: the pages in ascending order are
\* saved at output_path (replacing what was there) unless the save fails.
create_pdf_from_pages(dir, page_numbers, output_path, fails) ==
    IF fails
    THEN dir
    ELSE {f \in dir : f.path # output_path} \cup
         {[path |-> output_path, pages |-> sorted(page_numbers)]}

HasFile(dir, path) == \E f \in dir : f.path = path
FileAt(dir, path) == CHOOSE f \in dir : f.path = path

\* ------------------------------------------------------ assignment policies
\* mutant: a page belongs to a bucket only as the first page of its list
find_bucket_first_page(bp, page_num) ==
    IF \E i \in 1..Len(bp) : bp[i].pages # <<>> /\ bp[i].pages[1] = page_num
    THEN bp[CHOOSE i \in 1..Len(bp) : bp[i].pages # <<>> /\ bp[i].pages[1] = page_num].key
    ELSE NoKey

\* first bucket, in dict order, whose list holds page_num (or NoKey)
find_bucket(bp, page_num) ==
    IF \E i \in 1..Len(bp) : InList(page_num, bp[i].pages)
    THEN LET first == CHOOSE i \in 1..Len(bp) :
                         /\ InList(page_num, bp[i].pages)
                         /\ \A j \in 1..(i - 1) : ~InList(page_num, bp[j].pages)
         IN  bp[first].key
    ELSE NoKey

RECURSIVE previous_loop(_, _, _, _, _)
previous_loop(bp, no_barcode_list, total_pages, page_num, prev_barcode_tuple) ==
    IF page_num >= total_pages
    THEN bp
    ELSE LET current_barcode_tuple == find_bucket(bp, page_num)
             prev == IF current_barcode_tuple # NoKey
                     THEN current_barcode_tuple ELSE prev_barcode_tuple
         IN  IF current_barcode_tuple = NoKey /\ prev # NoKey
                /\ InList(page_num, no_barcode_list)
             THEN previous_loop(append_page(bp, prev, page_num), no_barcode_list,
                                total_pages, page_num + 1, prev)
             ELSE previous_loop(bp, no_barcode_list, total_pages, page_num + 1, prev)

\* mutant: the scan starts with the first bucket as the previous one
assign_to_previous_barcode_from_first(bp, no_barcode_list, total_pages) ==
    previous_loop(bp, no_barcode_list, total_pages, 0,
                  IF bp = <<>> THEN NoKey ELSE bp[1].key)

\* mutant: the scan stops one page early
assign_to_previous_barcode_short(bp, no_barcode_list, total_pages) ==
    previous_loop(bp, no_barcode_list, total_pages - 1, 0, NoKey)

\* PDFProcessor._assign_to_previous_barcode
assign_to_previous_barcode(bp, no_barcode_list, total_pages) ==
    previous_loop(bp, no_barcode_list, total_pages, 0, NoKey)

\* page_to_barcode[page_num] = barcode_tuple, a later bucket overwriting
page_to_barcode(bp, page_num) ==
    IF \E i \in 1..Len(bp) : InList(page_num, bp[i].pages)
    THEN LET last == CHOOSE i \in 1..Len(bp) :
                        /\ InList(page_num, bp[i].pages)
                        /\ \A j \in (i + 1)..Len(bp) : ~InList(page_num, bp[j].pages)
         IN  bp[last].key
    ELSE NoKey

\* the loop of _assign_sequentially, lines 333-342; bp0 is the mapping at
\* entry (page_to_barcode is built from it), bp the mapping as updated in
\* place, no_barcode_list the list of orphan page numbers
RECURSIVE sequential_plain_loop(_, _, _, _, _, _)
sequential_plain_loop(bp0, bp, no_barcode_list, total_pages, page_num, current_barcode) ==
    IF page_num >= total_pages
    THEN bp
    ELSE IF page_to_barcode(bp0, page_num) # NoKey
    THEN sequential_plain_loop(bp0, bp, no_barcode_list, total_pages, page_num + 1,
                               page_to_barcode(bp0, page_num))
    ELSE IF current_barcode # NoKey /\ InList(page_num, no_barcode_list)
    THEN sequential_plain_loop(bp0, append_page(bp, current_barcode, page_num),
                               no_barcode_list, total_pages, page_num + 1,
                               current_barcode)
    ELSE sequential_plain_loop(bp0, bp, no_barcode_list, total_pages, page_num + 1,
                               current_barcode)

\* PDFProcessor._assign_sequentially
assign_sequentially(bp, no_barcode_list, total_pages) ==
    sequential_plain_loop(bp, bp, no_barcode_list, total_pages, 0, NoKey)

\* the loop of _assign_sequentially_enhanced, lines 370-397; bp0 is the
\* mapping at entry (page_to_barcode is built from it), bp the mapping as
\* updated in place. The loop ends early when a vh.debug call raises.
RECURSIVE sequential_loop(_, _, _, _, _, _)
sequential_loop(bp0, bp, nbp, total_pages, page_num, current_barcode_group) ==
    IF page_num >= total_pages
    THEN [barcode_pages |-> bp, raised |-> FALSE]
    ELSE IF page_to_barcode(bp0, page_num) # NoKey
    THEN IF accepts("debug")
         THEN sequential_loop(bp0, bp, nbp, total_pages, page_num + 1,
                              page_to_barcode(bp0, page_num))
         ELSE [barcode_pages |-> bp, raised |-> TRUE]
    ELSE IF HasPage(nbp, page_num) /\ current_barcode_group # NoKey
    THEN LET appended == append_page(bp, current_barcode_group, page_num)
         IN  IF ResultOf(nbp, page_num).detection_status = NO_PATTERNS_FOUND
                /\ ~accepts("debug")
             THEN [barcode_pages |-> appended, raised |-> TRUE]
             ELSE sequential_loop(bp0, appended, nbp, total_pages, page_num + 1,
                                  current_barcode_group)
    ELSE sequential_loop(bp0, bp, nbp, total_pages, page_num + 1, current_barcode_group)

\* mutant: the call that raises comes after the traversal has appended
assign_sequentially_enhanced_raises_late(bp, nbp, total_pages) ==
    [barcode_pages |-> assign_sequentially(bp, page_keys(nbp), total_pages),
     raised |-> TRUE]

\* PDFProcessor._assign_sequentially_enhanced: the mapping as it is when the
\* call returns or raises, and whether it raised
assign_sequentially_enhanced(bp, nbp, total_pages) ==
    sequential_loop(bp, bp, nbp, total_pages, 0, NoKey)

\* ------------------------------------------------------------------ images
\* A page image is "fixed" (the decoder meets the same outcome at every
\* enhancement level), "free" (the decoder may meet any outcome at each
\* attempt) or "broken" (cv2.cvtColor raises when the page is converted).
FixedImage(o) == [kind |-> "fixed", outcome |-> o]
FreeImage == [kind |-> "free", outcome |-> RaisingOutcome]
BrokenImage == [kind |-> "broken", outcome |-> RaisingOutcome]

EmptyPage == FixedImage(DecoderOutcome(FALSE, 0, <<>>))
UnreadablePage == FixedImage(DecoderOutcome(FALSE, 1, <<>>))
CorruptPage == FixedImage(DecoderOutcome(FALSE, 0, <<EMPTY_TEXT>>))
RaisingPage == FixedImage(RaisingOutcome)
PartialPage == FixedImage(DecoderOutcome(FALSE, 0, <<DO1>>))
CompletePage(k) == FixedImage(DecoderOutcome(FALSE, 0, <<k[1], k[2]>>))

K1 == <<DO1, ACME>>
K2 == <<DO2, ACME>>
K3 == <<DO3, BETA>>
CompleteKeys == {K1, K2, K3}

\* test_create_safe_filename: marker texts holding a reserved character
ACME_SLASH == <<"A", "/", "C">>
ACME_UNDERSCORE == <<"A", "_", "C">>
K4 == <<DO1, ACME_SLASH>>
K5 == <<DO1, ACME_UNDERSCORE>>
ReservedKeys == {K4, K5}

OrphanKinds == {EmptyPage, UnreadablePage, CorruptPage, RaisingPage, BrokenImage}
PageKinds == OrphanKinds \cup {PartialPage, CompletePage(K1), CompletePage(K2)}

\* documents of up to MaxPages pages
SmallDocs == UNION {[1..n -> PageKinds] : n \in 1..MaxPages}

\* test.py: 7 pages carrying three keys in rotation
ScenarioADocs ==
    {<<CompletePage(a), CompletePage(b), CompletePage(c), CompletePage(a),
       CompletePage(b), CompletePage(c), CompletePage(a)>> :
         a \in CompleteKeys, b \in CompleteKeys, c \in CompleteKeys}

\* test_end_to_end_barcode_detection_workflow: [A, orphan, orphan, B, orphan]
ScenarioBDocs ==
    {<<CompletePage(a), o1, o2, CompletePage(b), o3>> :
         a \in {K1}, b \in {K2, K3},
         o1 \in OrphanKinds, o2 \in OrphanKinds, o3 \in OrphanKinds}

\* two pages whose customer names differ in a reserved character only
ScenarioCDocs ==
    {<<CompletePage(a), CompletePage(b)>> : a \in ReservedKeys, b \in ReservedKeys}

Docs == SmallDocs \cup ScenarioADocs \cup ScenarioBDocs \cup ScenarioCDocs

HandleModes == {"ignore", "separate", "keep_with_previous", "sequential"}

\* the outcomes the decoder can meet on an image at an attempt
DecodeSet(img) == IF img.kind = "free" THEN Outcomes ELSE {img.outcome}

\* what _detect_barcodes_from_image returns on each outcome an image can give
ImageOutcomes ==
    Outcomes \cup {k.outcome : k \in PageKinds}
        \cup {CompletePage(k).outcome : k \in CompleteKeys \cup ReservedKeys}
detection_results == [o \in ImageOutcomes |-> detect_barcodes_from_image(o)]

\* ------------------------------------------------------------------- state
VARIABLES
    images,              \* the input document, one image per page
    max_retries,         \* BarcodeDetector.max_retries
    handle_mode,         \* process_pdf(handle_no_barcode = ...)
    pc,                  \* where process_pdf is
    page_num,            \* extract_barcodes_from_pdf: the page being detected
    attempt,             \* _detect_with_retry: index of the next attempt
    result,              \* _detect_with_retry: result of the latest attempt
    best_result,         \* _detect_with_retry: best result so far, then the
                         \* result it returned for the latest page
    attempt_results,     \* the results of the earlier attempts on this page
    decode_calls,        \* per page, the number of decode attempts made
    page_barcodes,       \* dict page -> BarcodeDetectionResult
    barcode_pages,       \* dict (delivery, customer) -> list of pages
    no_barcode_pages,    \* dict page -> BarcodeDetectionResult
    invalid_pages,       \* pages of the buckets _filter_valid_barcodes dropped
    extraction_details,  \* the CSV records
    output_dir,          \* the PDFs in the output directory
    write_failed,        \* some save of an output PDF failed
    handle_raised,       \* handle_pages_without_barcodes caught an exception
    caller_barcode_pages, \* the dict process_pdf handed to the handler, as it
                         \* is when the handler returns
    summary,             \* what process_pdf returns
    call                 \* a direct call of a function: its arguments and,
                         \* once it returned, its return value

vars ==
    <<images, max_retries, handle_mode, pc, page_num, attempt, result, best_result,
      attempt_results, decode_calls, page_barcodes, barcode_pages, no_barcode_pages, invalid_pages,
      extraction_details, output_dir, write_failed, handle_raised,
      caller_barcode_pages, summary, call>>

NoResult == [none |-> TRUE]
NoSummary == [none |-> TRUE]
NoCall == [fn |-> "none"]
total_pages == Len(images)

InitRun(doc, retries, mode) ==
    /\ images = doc
    /\ max_retries = retries
    /\ handle_mode = mode
    /\ pc = "extract"
    /\ page_num = 0
    /\ attempt = 0
    /\ result = NoResult
    /\ best_result = NoResult
    /\ attempt_results = <<>>
    /\ decode_calls = [i \in 1..Len(doc) |-> 0]
    /\ page_barcodes = <<>>
    /\ barcode_pages = <<>>
    /\ no_barcode_pages = <<>>
    /\ invalid_pages = <<>>
    /\ extraction_details = <<>>
    /\ output_dir = {}
    /\ write_failed = FALSE
    /\ handle_raised = FALSE
    /\ caller_barcode_pages = <<>>
    /\ summary = NoSummary

InitWith(doc, retries, mode) == InitRun(doc, retries, mode) /\ call = NoCall

\* PDFProcessor() builds BarcodeDetector() with the default max_retries
Init ==
    \E doc \in Docs, mode \in HandleModes : InitWith(doc, DefaultMaxRetries, mode)

\* a one-page document read by BarcodeDetector(max_retries = m)
InitDetect ==
    \E m \in 0..MaxRetries, mode \in HandleModes, img \in {FreeImage, BrokenImage} :
        InitWith(<<img>>, m, mode)

\* --------------------------------------------------------- the retry loop
\* mutant: the latest result always replaces the best one
keep_latest(r, best) == r

\* _detect_with_retry, line 351: keep track of the best result so far
keep_best(r, best) ==
    IF best = NoResult THEN r
    ELSE IF is_better_result(r, best) THEN r
    ELSE best

\* mutant: one more attempt is allowed
loop_ends_one_more(r, attempt_, max_retries_) ==
    \/ has_complete_barcodes(r)
    \/ r.detection_status = NO_PATTERNS_FOUND
    \/ ~(attempt_ <= max_retries_ /\ needs_retry(r))

\* _detect_with_retry, lines 355-376: does the loop end after this attempt?
loop_ends(r, attempt_, max_retries_) ==
    \/ has_complete_barcodes(r)
    \/ r.detection_status = NO_PATTERNS_FOUND
    \/ ~(attempt_ < max_retries_ /\ needs_retry(r))

\* mutant: a complete attempt leaves the loop by break instead of return
returned_result_no_early_return(r, best, max_retries_) ==
    IF best.retry_count >= max_retries_
    THEN [best EXCEPT !.detection_status = RETRY_EXHAUSTED]
    ELSE best

\* _detect_with_retry, lines 358 and 379-394: what the loop returns when it
\* ends after the attempt that gave r, best being the best result so far
returned_result(r, best, max_retries_) ==
    IF has_complete_barcodes(r) THEN r
    ELSE IF best.retry_count >= max_retries_
    THEN [best EXCEPT !.detection_status = RETRY_EXHAUSTED]
    ELSE best

\* mutant: the page whose conversion raised is stored as unreadable
page_error_result_unreadable ==
    [BarcodeDetectionResult EXCEPT !.detection_status = PATTERNS_UNREADABLE,
                                   !.error_details = ExceptionError]

\* extract_barcodes_from_pdf, line 456: the result stored for a page whose
\* conversion raised
page_error_result ==
    [BarcodeDetectionResult EXCEPT !.detection_status = PATTERNS_CORRUPTED,
                                   !.error_details = ExceptionError]

\* extract_barcodes_from_pdf, line 456: the result stored for a page whose
\* processing raised AttributeError
sink_error_result ==
    [BarcodeDetectionResult EXCEPT !.detection_status = PATTERNS_CORRUPTED,
                                   !.error_details = AttributeError]

\* extract_barcodes_from_pdf, lines 437-460: the returned result is stored and
\* then logged, a page without barcode by vh.debug; when that call raises,
\* the except clause stores an error result in its place
stored_result(returned) ==
    IF has_any_barcode(returned) \/ accepts("debug") THEN returned ELSE sink_error_result

\* what extract_barcodes_from_pdf stores for the page when the loop ends after
\* the attempt that gave r; the vh.debug call of line 362 comes first
page_result(r, best, max_retries_) ==
    IF /\ ~has_complete_barcodes(r)
       /\ r.detection_status = NO_PATTERNS_FOUND
       /\ ~accepts("debug")
    THEN sink_error_result
    ELSE stored_result(returned_result(r, best, max_retries_))

\* mutant: grouping starts when the last page is still to be detected
AfterPage_before_last(p) == IF p + 2 >= total_pages THEN "group" ELSE "extract"

\* extract_barcodes_from_pdf, lines 424 and 473: the loop over the pages ends
\* after the last page, and only then the result map is returned
AfterPage(p) == IF p + 1 >= total_pages THEN "group" ELSE "extract"

\* mutant: a page whose conversion raises is skipped without a result
ConvertFails_no_result ==
    /\ pc = "extract"
    /\ page_num < total_pages
    /\ images[page_num + 1].kind = "broken"
    /\ page_num' = page_num + 1
    /\ pc' = AfterPage(page_num)
    /\ UNCHANGED <<call, images, max_retries, handle_mode, attempt, result, best_result,
                   attempt_results, decode_calls, page_barcodes, barcode_pages,
                   no_barcode_pages, invalid_pages, extraction_details, output_dir,
                   write_failed, handle_raised, caller_barcode_pages, summary>>

\* extract_barcodes_from_pdf, lines 428-460: converting the page raises
ConvertFails ==
    /\ pc = "extract"
    /\ page_num < total_pages
    /\ images[page_num + 1].kind = "broken"
    /\ page_barcodes' = Append(page_barcodes,
                               [page |-> page_num, result |-> page_error_result])
    /\ page_num' = page_num + 1
    /\ pc' = AfterPage(page_num)
    /\ UNCHANGED <<call, images, max_retries, handle_mode, attempt, result, best_result, attempt_results,
                   decode_calls, barcode_pages, no_barcode_pages, invalid_pages,
                   extraction_details, output_dir, write_failed, handle_raised, caller_barcode_pages,
                   summary>>

\* mutant: best_result is not reset when the detection of a page starts
DetectAttempt_keeps_best ==
    /\ pc = "extract"
    /\ page_num < total_pages
    /\ images[page_num + 1].kind # "broken"
    /\ \E o \in DecodeSet(images[page_num + 1]) :
        LET r == [detection_results[o] EXCEPT !.retry_count = attempt]
            best == keep_best(r, best_result)
        IN  /\ result' = r
            /\ decode_calls' = [decode_calls EXCEPT ![page_num + 1] = @ + 1]
            /\ IF loop_ends(r, attempt, max_retries)
               THEN /\ page_barcodes' =
                          Append(page_barcodes,
                                 [page |-> page_num,
                                  result |-> page_result(r, best, max_retries)])
                    /\ page_num' = page_num + 1
                    /\ attempt' = 0
                    /\ best_result' = returned_result(r, best, max_retries)
                    /\ attempt_results' = <<>>
                    /\ pc' = AfterPage(page_num)
               ELSE /\ attempt' = attempt + 1
                    /\ best_result' = best
                    /\ attempt_results' = Append(attempt_results, r)
                    /\ UNCHANGED <<page_barcodes, page_num, pc>>
    /\ UNCHANGED <<call, images, max_retries, handle_mode, barcode_pages, no_barcode_pages,
                   invalid_pages, extraction_details, output_dir, write_failed,
                   handle_raised, caller_barcode_pages, summary>>

\* one iteration of the loop of _detect_with_retry; the iteration that ends
\* the loop returns to extract_barcodes_from_pdf, which stores the result
DetectAttempt ==
    /\ pc = "extract"
    /\ page_num < total_pages
    /\ images[page_num + 1].kind # "broken"
    /\ \E o \in DecodeSet(images[page_num + 1]) :
        LET r == [detection_results[o] EXCEPT !.retry_count = attempt]
            best == keep_best(r, IF attempt = 0 THEN NoResult ELSE best_result)
        IN  /\ result' = r
            /\ decode_calls' = [decode_calls EXCEPT ![page_num + 1] = @ + 1]
            /\ IF loop_ends(r, attempt, max_retries)
               THEN /\ page_barcodes' =
                          Append(page_barcodes,
                                 [page |-> page_num,
                                  result |-> page_result(r, best, max_retries)])
                    /\ page_num' = page_num + 1
                    /\ attempt' = 0
                    /\ best_result' = returned_result(r, best, max_retries)
                    /\ attempt_results' = <<>>
                    /\ pc' = AfterPage(page_num)
               ELSE /\ attempt' = attempt + 1
                    /\ best_result' = best
                    /\ attempt_results' = Append(attempt_results, r)
                    /\ UNCHANGED <<page_barcodes, page_num, pc>>
    /\ UNCHANGED <<call, images, max_retries, handle_mode, barcode_pages, no_barcode_pages,
                   invalid_pages, extraction_details, output_dir, write_failed,
                   handle_raised, caller_barcode_pages, summary>>

\* ------------------------------------------------------ split_pdf_by_barcodes
\* split_pdf_by_barcodes, line 143
Group ==
    /\ pc = "group"
    /\ LET g == group_pages_by_barcode(page_barcodes)
       IN  /\ barcode_pages' = g.barcode_pages
           /\ no_barcode_pages' = g.no_barcode_pages
    /\ pc' = "filter"
    /\ UNCHANGED <<call, images, max_retries, handle_mode, page_num, attempt, result,
                   best_result, attempt_results, decode_calls, page_barcodes, invalid_pages,
                   extraction_details, output_dir, write_failed, handle_raised, caller_barcode_pages,
                   summary>>

\* split_pdf_by_barcodes, lines 155-161; with no valid bucket it returns
\* ({}, [], no_barcode_pages) at once
Filter ==
    /\ pc = "filter"
    /\ LET f == filter_valid_barcodes(barcode_pages)
       IN  /\ barcode_pages' = f.valid_barcode_pages
           /\ invalid_pages' = f.invalid_pages
           /\ pc' = IF f.valid_barcode_pages = <<>> THEN "handle" ELSE "create"
    /\ UNCHANGED <<call, images, max_retries, handle_mode, page_num, attempt, result,
                   best_result, attempt_results, decode_calls, page_barcodes, no_barcode_pages,
                   extraction_details, output_dir, write_failed, handle_raised, caller_barcode_pages,
                   summary>>

output_path_of(key) ==
    IF key = <<NO_BARCODE, NO_BARCODE>> THEN no_barcode_pdf
    ELSE create_safe_filename(key[1], key[2])

csv_record(sequence_no, key) ==
    [SequenceNo |-> sequence_no,
     Barcode1 |-> IF key[2] # UNKNOWN THEN key[2] ELSE <<>>,
     Barcode2 |-> IF key[1] # UNKNOWN THEN key[1] ELSE <<>>,
     OutputPath |-> create_safe_filename(key[1], key[2])]

\* split_pdf_by_barcodes, lines 165-198: one PDF and one CSV record per
\* bucket; failing is the set of paths whose save raises
RECURSIVE create_loop(_, _, _, _, _, _)
create_loop(bp, i, dir, details, sequence_no, failing) ==
    IF i > Len(bp)
    THEN [output_dir |-> dir, extraction_details |-> details]
    ELSE LET key == bp[i].key
             path == create_safe_filename(key[1], key[2])
         IN  IF path \in failing
             THEN create_loop(bp, i + 1, dir, details, sequence_no, failing)
             ELSE create_loop(bp, i + 1,
                              create_pdf_from_pages(dir, bp[i].pages, path, FALSE),
                              Append(details, csv_record(sequence_no, key)),
                              sequence_no + 1, failing)

bucket_paths(bp) == {create_safe_filename(bp[i].key[1], bp[i].key[2]) : i \in 1..Len(bp)}

FailingSets(paths) == {F \in SUBSET paths : Cardinality(F) <= MaxWriteFailures}

CreatePdfs ==
    /\ pc = "create"
    /\ \E failing \in FailingSets(bucket_paths(barcode_pages)) :
        LET c == create_loop(barcode_pages, 1, output_dir, <<>>, 1, failing)
        IN  /\ output_dir' = c.output_dir
            /\ extraction_details' = c.extraction_details
            /\ write_failed' = (write_failed \/ failing # {})
    /\ pc' = "handle"
    /\ UNCHANGED <<call, images, max_retries, handle_mode, page_num, attempt, result,
                   best_result, attempt_results, decode_calls, page_barcodes, barcode_pages,
                   no_barcode_pages, invalid_pages, handle_raised, caller_barcode_pages, summary>>

\* ----------------------------------------------- handle_pages_without_barcodes
\* PDFProcessor._recreate_pdfs_with_updated_pages
RECURSIVE recreate_pdfs_with_updated_pages(_, _, _, _)
recreate_pdfs_with_updated_pages(dir, bp, i, failing) ==
    IF i > Len(bp)
    THEN dir
    ELSE IF bp[i].key = <<NO_BARCODE, NO_BARCODE>>
    THEN recreate_pdfs_with_updated_pages(dir, bp, i + 1, failing)
    ELSE LET path == create_safe_filename(bp[i].key[1], bp[i].key[2])
         IN  recreate_pdfs_with_updated_pages(
                 create_pdf_from_pages(dir, bp[i].pages, path, path \in failing),
                 bp, i + 1, failing)

\* PDFProcessor.handle_pages_without_barcodes, lines 236-274: the mapping it
\* returns, the output directory, and whether the except clause was entered
handle_pages_without_barcodes(dir, bp, nbp, total, mode, failing) ==
    LET all_no_barcode_page_nums == page_keys(nbp)
    IN  IF nbp = <<>>
        THEN [barcode_pages |-> bp, output_dir |-> dir, raised |-> FALSE]
        ELSE IF mode = "separate"
        THEN [barcode_pages |-> set_pages(bp, <<NO_BARCODE, NO_BARCODE>>,
                                          all_no_barcode_page_nums),
              output_dir |-> create_pdf_from_pages(dir, all_no_barcode_page_nums,
                                                   no_barcode_pdf,
                                                   no_barcode_pdf \in failing),
              raised |-> FALSE]
        ELSE IF mode = "keep_with_previous"
        THEN [barcode_pages |-> assign_to_previous_barcode(bp, all_no_barcode_page_nums,
                                                           total),
              output_dir |-> dir,
              raised |-> FALSE]
        ELSE IF mode = "sequential"
        THEN LET updated == assign_sequentially_enhanced(bp, nbp, total)
             IN  IF updated.raised
                 THEN [barcode_pages |-> updated.barcode_pages, output_dir |-> dir,
                       raised |-> TRUE]
                 ELSE [barcode_pages |-> updated.barcode_pages,
                       output_dir |-> recreate_pdfs_with_updated_pages(
                                          dir, updated.barcode_pages, 1, failing),
                       raised |-> FALSE]
        ELSE [barcode_pages |-> bp, output_dir |-> dir, raised |-> FALSE]

\* the paths handle_pages_without_barcodes saves to
handle_paths(bp, nbp, mode) ==
    IF nbp = <<>> THEN {}
    ELSE IF mode = "separate" THEN {no_barcode_pdf}
    ELSE IF mode = "sequential" /\ ~assign_sequentially_enhanced(bp, nbp, total_pages).raised
    THEN bucket_paths(bp)
    ELSE {}

\* mutant: under "ignore" the orphan pages are kept with the previous bucket
SkipHandle_keeps_with_previous ==
    /\ pc = "handle"
    /\ handle_mode = "ignore"
    /\ barcode_pages' = assign_to_previous_barcode(barcode_pages,
                                                   page_keys(no_barcode_pages),
                                                   total_pages)
    /\ pc' = "finish"
    /\ UNCHANGED <<call, images, max_retries, handle_mode, page_num, attempt, result,
                   best_result, attempt_results, decode_calls, page_barcodes,
                   no_barcode_pages, invalid_pages, extraction_details, output_dir,
                   write_failed, handle_raised, caller_barcode_pages, summary>>

\* process_pdf, line 66: under "ignore" the handler is not called
SkipHandle ==
    /\ pc = "handle"
    /\ handle_mode = "ignore"
    /\ pc' = "finish"
    /\ UNCHANGED <<call, images, max_retries, handle_mode, page_num, attempt, result,
                   best_result, attempt_results, decode_calls, page_barcodes, barcode_pages,
                   no_barcode_pages, invalid_pages, extraction_details, output_dir,
                   write_failed, handle_raised, caller_barcode_pages, summary>>

HandlePages ==
    /\ pc = "handle"
    /\ handle_mode # "ignore"
    /\ \E failing \in FailingSets(handle_paths(barcode_pages, no_barcode_pages,
                                               handle_mode)) :
        LET h == handle_pages_without_barcodes(output_dir, barcode_pages,
                                               no_barcode_pages, total_pages,
                                               handle_mode, failing)
        IN  /\ barcode_pages' = h.barcode_pages
            /\ output_dir' = h.output_dir
            /\ write_failed' = (write_failed \/ failing # {})
            /\ handle_raised' = h.raised
            \* lines 259, 303 and 383 update the dict and the lists they are
            \* given, and lines 274, 316 and 424 return that same dict
            /\ caller_barcode_pages' = h.barcode_pages
    /\ pc' = "finish"
    /\ UNCHANGED <<call, images, max_retries, handle_mode, page_num, attempt, result,
                   best_result, attempt_results, decode_calls, page_barcodes, no_barcode_pages,
                   invalid_pages, extraction_details, summary>>

\* handle_pages_without_barcodes, lines 233 and 267-274: pikepdf.open raises,
\* the exception is logged and barcode_pages is returned
HandleOpenFails ==
    /\ pc = "handle"
    /\ handle_mode # "ignore"
    /\ handle_raised' = TRUE
    /\ caller_barcode_pages' = barcode_pages
    /\ pc' = "finish"
    /\ UNCHANGED <<call, images, max_retries, handle_mode, page_num, attempt, result,
                   best_result, attempt_results, decode_calls, page_barcodes, barcode_pages,
                   no_barcode_pages, invalid_pages, extraction_details, output_dir,
                   write_failed, summary>>

\* ------------------------------------------------------------------ results
result_key(key) == key[1] \o <<"_">> \o key[2]

\* BarkusApplication._prepare_results
RECURSIVE prepare_results(_, _, _)
prepare_results(bp, i, processed) ==
    IF i > Len(bp)
    THEN processed
    ELSE LET entry == [key |-> result_key(bp[i].key),
                       delivery_number |-> bp[i].key[1],
                       customer_name |-> bp[i].key[2],
                       pages |-> bp[i].pages,
                       page_count |-> Len(bp[i].pages)]
         IN  prepare_results(bp, i + 1,
                 IF HasKey(processed, entry.key)
                 THEN [processed EXCEPT ![IndexOfKey(processed, entry.key)] = entry]
                 ELSE Append(processed, entry))

\* process_pdf, lines 71-90
Finish ==
    /\ pc = "finish"
    /\ summary' = [barcode_count |-> Len(barcode_pages),
                   no_barcode_pages |-> IF handle_mode = "ignore"
                                        THEN Len(no_barcode_pages) ELSE 0,
                   csv_log_written |-> extraction_details # <<>>,
                   results |-> prepare_results(barcode_pages, 1, <<>>)]
    /\ pc' = "done"
    /\ UNCHANGED <<call, images, max_retries, handle_mode, page_num, attempt, result,
                   best_result, attempt_results, decode_calls, page_barcodes, barcode_pages,
                   no_barcode_pages, invalid_pages, extraction_details, output_dir,
                   write_failed, handle_raised, caller_barcode_pages>>

Next ==
    \/ ConvertFails
    \/ DetectAttempt
    \/ Group
    \/ Filter
    \/ CreatePdfs
    \/ SkipHandle
    \/ HandlePages
    \/ HandleOpenFails
    \/ Finish

Spec == Init /\ [][Next]_vars

\* the retry loop on one page whose decoding is arbitrary at every attempt
SpecDetect == InitDetect /\ [][Next]_vars

\* -------------------------------------------------------------- statistics
\* get_detection_statistics, lines 535-542: the counter the elif chain
\* increments for a result of status s, None when it increments none
status_key(s) ==
    CASE s = NO_PATTERNS_FOUND -> "pages_no_patterns"
      [] s = PATTERNS_UNREADABLE -> "pages_unreadable_patterns"
      [] s = PATTERNS_CORRUPTED -> "pages_corrupted_patterns"
      [] s = RETRY_EXHAUSTED -> "pages_retry_exhausted"
      [] OTHER -> "<None>"

\* the stats dict as get_detection_statistics initialises it
stats0(page_barcodes_) ==
    [total_pages |-> Len(page_barcodes_),
     pages_with_barcodes |-> 0,
     pages_complete_barcodes |-> 0,
     pages_no_patterns |-> 0,
     pages_unreadable_patterns |-> 0,
     pages_corrupted_patterns |-> 0,
     pages_retry_exhausted |-> 0,
     total_patterns_found |-> 0,
     total_readable_patterns |-> 0]

add_one(stats, key) ==
    IF key \in DOMAIN stats THEN [stats EXCEPT ![key] = @ + 1] ELSE stats

\* mutant: the complete pages are counted in an elif branch of the test for
\* any barcode
count_result_elif(stats, r) ==
    LET s1 == IF has_any_barcode(r) THEN add_one(stats, "pages_with_barcodes")
              ELSE IF has_complete_barcodes(r)
              THEN add_one(stats, "pages_complete_barcodes")
              ELSE stats
        s2 == add_one(s1, status_key(r.detection_status))
    IN  [s2 EXCEPT !.total_patterns_found = @ + r.patterns_found,
                   !.total_readable_patterns = @ + r.readable_patterns]

\* get_detection_statistics, lines 528-545: the body of the loop
count_result(stats, r) ==
    LET s1 == IF has_any_barcode(r) THEN add_one(stats, "pages_with_barcodes") ELSE stats
        s2 == IF has_complete_barcodes(r)
              THEN add_one(s1, "pages_complete_barcodes") ELSE s1
        s3 == add_one(s2, status_key(r.detection_status))
    IN  [s3 EXCEPT !.total_patterns_found = @ + r.patterns_found,
                   !.total_readable_patterns = @ + r.readable_patterns]

RECURSIVE stats_loop(_, _, _)
stats_loop(page_barcodes_, i, stats) ==
    IF i > Len(page_barcodes_) THEN stats
    ELSE stats_loop(page_barcodes_, i + 1, count_result(stats, page_barcodes_[i].result))

\* BarcodeDetector.get_detection_statistics
get_detection_statistics(page_barcodes_) ==
    stats_loop(page_barcodes_, 1, stats0(page_barcodes_))

\* ------------------------------------------------------------ direct calls
\* The functions of the detector and of the processor called on their own, as
\* the unit tests call them: Init draws the arguments, the action of the
\* function applies it.
MaxTextLen == 3
MaxNameLen == 2
MaxStatPages == 2

run ==
    <<images, max_retries, handle_mode, pc, page_num, attempt, result, best_result,
      attempt_results, decode_calls, page_barcodes, barcode_pages, no_barcode_pages,
      invalid_pages, extraction_details, output_dir, write_failed, handle_raised,
      caller_barcode_pages, summary>>

Pending(fn, args) == [fn |-> fn, args |-> args, returned |-> FALSE, value |-> "pending"]
Returned(c, value) == [c EXCEPT !.returned = TRUE, !.value = value]

\* barcode texts: None, or a string of up to MaxTextLen characters
ClassifierChars == {"D", "d", "O", "o", "0", "7", "A", " ", "\t"}
ClassifierTexts(n) == {None} \cup SeqsUpTo(ClassifierChars, n)

\* bucket keys: a field is UNKNOWN or a string of up to n characters,
\* among them the characters Windows disallows in file names
FileChars == {"<", ">", ":", "\"", "/", "\\", "|", "?", "*", "A", "_"}
FileTexts(n) == {UNKNOWN} \cup SeqsUpTo(FileChars, n)
ShortTexts == {UNKNOWN, <<>>, <<"A">>, <<"?">>}
FilePairs(n) == (FileTexts(n) \X ShortTexts) \cup (ShortTexts \X FileTexts(n))

\* result maps of up to n pages, of results as the unit tests build
\* them
StatResults ==
    {[BarcodeDetectionResult EXCEPT !.delivery_number = d,
                                    !.customer_name = c,
                                    !.detection_status = s,
                                    !.patterns_found = n[1],
                                    !.readable_patterns = n[2]] :
        d \in {None, DO1}, c \in {None, ACME}, s \in BarcodeDetectionStatus,
        n \in {<<0, 0>>, <<2, 1>>}}
ResultMap(results) == [i \in 1..Len(results) |-> [page |-> i - 1, result |-> results[i]]]
StatMaps(n) == {ResultMap(results) : results \in SeqsUpTo(StatResults, n)}

\* results as test_is_better_result builds them: any marker fields, any status
CompareResults ==
    {[BarcodeDetectionResult EXCEPT !.delivery_number = d,
                                    !.customer_name = c,
                                    !.detection_status = s] :
        d \in {None, DO1}, c \in {None, ACME}, s \in BarcodeDetectionStatus}

\* the calls made, for texts, names and maps of the given sizes
Calls(text_len, name_len, stat_pages) ==
    {Pending("is_delivery_number", <<t>>) : t \in ClassifierTexts(text_len)}
    \cup {Pending("_create_safe_filename", p) : p \in FilePairs(name_len)}
    \cup {Pending("get_detection_statistics", <<m>>) : m \in StatMaps(stat_pages)}
    \cup {Pending("_is_better_result", p) : p \in CompareResults \X CompareResults}
    \cup {Pending("needs_retry", <<r>>) : r \in StatResults}

InitCalls ==
    /\ InitRun(<<EmptyPage>>, DefaultMaxRetries, "ignore")
    /\ call \in Calls(MaxTextLen, MaxNameLen, MaxStatPages)

Call_is_delivery_number ==
    /\ call.fn = "is_delivery_number"
    /\ ~call.returned
    /\ call' = Returned(call, is_delivery_number(call.args[1]))
    /\ UNCHANGED run

Call_create_safe_filename ==
    /\ call.fn = "_create_safe_filename"
    /\ ~call.returned
    /\ call' = Returned(call, create_safe_filename(call.args[1], call.args[2]))
    /\ UNCHANGED run

Call_get_detection_statistics ==
    /\ call.fn = "get_detection_statistics"
    /\ ~call.returned
    /\ call' = Returned(call, get_detection_statistics(call.args[1]))
    /\ UNCHANGED run

Call_is_better_result ==
    /\ call.fn = "_is_better_result"
    /\ ~call.returned
    /\ call' = Returned(call, is_better_result(call.args[1], call.args[2]))
    /\ UNCHANGED run

Call_needs_retry ==
    /\ call.fn = "needs_retry"
    /\ ~call.returned
    /\ call' = Returned(call, needs_retry(call.args[1]))
    /\ UNCHANGED run

NextCalls ==
    \/ Call_is_delivery_number
    \/ Call_create_safe_filename
    \/ Call_get_detection_statistics
    \/ Call_is_better_result
    \/ Call_needs_retry

SpecCalls == InitCalls /\ [][NextCalls]_vars

\* ================================================================== claims
\* What the assignment policies are required to do, stated on the pages:
\* a page is a member of bp when some bucket of bp lists it.
IsMember(bp, p) == \E i \in 1..Len(bp) : InList(p, bp[i].pages)
BucketsOf(bp, p) == {i \in 1..Len(bp) : InList(p, bp[i].pages)}
HasMemberBefore(bp, p) == \E q \in 0..(p - 1) : IsMember(bp, q)
NearestMemberBefore(bp, p) ==
    CHOOSE q \in 0..(p - 1) :
        IsMember(bp, q) /\ \A q2 \in (q + 1)..(p - 1) : ~IsMember(bp, q2)
OrphanPages(nbp) == {nbp[i].page : i \in 1..Len(nbp)}

\* the orphans whose nearest preceding member page is in bucket i of bp
FollowersOf(bp, nbp, i) ==
    {p \in OrphanPages(nbp) :
        /\ ~IsMember(bp, p)
        /\ HasMemberBefore(bp, p)
        /\ InList(NearestMemberBefore(bp, p), bp[i].pages)}

RECURSIVE Ascending(_)
Ascending(S) ==
    IF S = {} THEN <<>>
    ELSE LET m == CHOOSE x \in S : \A y \in S : x <= y
         IN  <<m>> \o Ascending(S \ {m})

\* every bucket keeps its key and its list, followed by its followers in
\* page order
FoldedIntoPrevious(bp, nbp, after) ==
    /\ Len(after) = Len(bp)
    /\ \A i \in 1..Len(bp) :
        /\ after[i].key = bp[i].key
        /\ after[i].pages = bp[i].pages \o Ascending(FollowersOf(bp, nbp, i))

SequentialStep == HandlePages /\ handle_mode = "sequential"
KeepWithPreviousStep == HandlePages /\ handle_mode = "keep_with_previous"

ScenarioB ==
    <<CompletePage(K1), EmptyPage, UnreadablePage, CompletePage(K2), EmptyPage>>

\* C1: under the Sequential policy every orphan page that follows a bucket
\* member page is appended to the bucket of the nearest preceding member
\* page, whatever its detection status; the pages [A, empty, unreadable, B,
\* empty] end as A = [0, 1, 2] and B = [3, 4].
C1_SequentialAppendsOrphans ==
    [][SequentialStep =>
         /\ FoldedIntoPrevious(barcode_pages, no_barcode_pages, barcode_pages')
         /\ \A p \in OrphanPages(no_barcode_pages) :
              HasMemberBefore(barcode_pages, p) =>
                \E i \in 1..Len(barcode_pages) :
                    /\ InList(NearestMemberBefore(barcode_pages, p), barcode_pages[i].pages)
                    /\ InList(p, barcode_pages'[i].pages)
         /\ images = ScenarioB =>
              barcode_pages' = <<[key |-> K1, pages |-> <<0, 1, 2>>],
                                 [key |-> K2, pages |-> <<3, 4>>]>>]_vars

\* C2: under the KeepWithPrevious policy each orphan page met while a current
\* bucket exists (the bucket of the most recently seen member page) is
\* appended to that bucket.
C2_KeepWithPreviousAppendsOrphans ==
    [][KeepWithPreviousStep =>
         /\ FoldedIntoPrevious(barcode_pages, no_barcode_pages, barcode_pages')
         /\ \A p \in OrphanPages(no_barcode_pages) :
              HasMemberBefore(barcode_pages, p) =>
                \E i \in 1..Len(barcode_pages) :
                    /\ InList(NearestMemberBefore(barcode_pages, p), barcode_pages[i].pages)
                    /\ InList(p, barcode_pages'[i].pages)]_vars

C2_Witness ==
    /\ pc = "finish"
    /\ handle_mode = "keep_with_previous"
    /\ ~handle_raised
    /\ images = <<CompletePage(K1), CompletePage(K2), EmptyPage>>
    /\ barcode_pages = <<[key |-> K1, pages |-> <<0>>], [key |-> K2, pages |-> <<1, 2>>]>>

\* C3: under KeepWithPrevious and Sequential an orphan page with no bucket
\* member page before it is in no bucket and in no output document.
LeadingOrphans ==
    {p \in OrphanPages(no_barcode_pages) :
        \A q \in 0..(p - 1) :
            ~(IsMember(barcode_pages, q) /\ ~HasPage(no_barcode_pages, q))}

C3_LeadingOrphansStayUnassigned ==
    (pc \in {"finish", "done"} /\ handle_mode \in {"keep_with_previous", "sequential"}) =>
        \A p \in LeadingOrphans :
            /\ ~IsMember(barcode_pages, p)
            /\ \A f \in output_dir : ~InList(p, f.pages)

C3_Witness ==
    /\ pc = "done"
    /\ handle_mode = "keep_with_previous"
    /\ ~handle_raised
    /\ images = <<EmptyPage, CompletePage(K1), EmptyPage>>
    /\ LeadingOrphans = {0}
    /\ barcode_pages = <<[key |-> K1, pages |-> <<1, 2>>]>>
    /\ \A f \in output_dir : ~InList(0, f.pages)

IsPrefix(s, t) == Len(s) <= Len(t) /\ SubSeq(t, 1, Len(s)) = s

\* C4: KeepWithPrevious and Sequential keep every bucket and every page of
\* it, leave each non-orphan page in its bucket only, and add orphan pages
\* only.
C4_PoliciesOnlyAddOrphans ==
    [][(SequentialStep \/ KeepWithPreviousStep) =>
         /\ Len(barcode_pages') = Len(barcode_pages)
         /\ \A i \in 1..Len(barcode_pages) :
              /\ barcode_pages'[i].key = barcode_pages[i].key
              /\ IsPrefix(barcode_pages[i].pages, barcode_pages'[i].pages)
              /\ \A j \in 1..Len(barcode_pages'[i].pages) :
                    LET p == barcode_pages'[i].pages[j]
                    IN  \/ InList(p, barcode_pages[i].pages)
                        \/ HasPage(no_barcode_pages, p)
         /\ \A p \in 0..(total_pages - 1) :
              ~HasPage(no_barcode_pages, p) =>
                  BucketsOf(barcode_pages', p) = BucketsOf(barcode_pages, p)]_vars

C4_Witness ==
    /\ pc = "finish"
    /\ handle_mode = "keep_with_previous"
    /\ ~handle_raised
    /\ images = <<CompletePage(K1), UnreadablePage, CompletePage(K1)>>
    /\ barcode_pages = <<[key |-> K1, pages |-> <<0, 2, 1>>]>>

\* the pages of a list, as a set
PageSet(list) == {list[i] : i \in 1..Len(list)}

\* C5: when a run finishes, under any policy, the document written for each
\* bucket of the final mapping holds exactly the pages of the bucket's final
\* list, in ascending order, the pages gained by reassignment included.
C5_OutputsMatchFinalBuckets ==
    (pc = "done" /\ ~write_failed) =>
        \A i \in 1..Len(barcode_pages) :
            /\ HasFile(output_dir, output_path_of(barcode_pages[i].key))
            /\ FileAt(output_dir, output_path_of(barcode_pages[i].key)).pages
                   = Ascending(PageSet(barcode_pages[i].pages))

\* how often page p occurs in the lists of bp
Occurrences(bp, p) ==
    Cardinality({ij \in (1..Len(bp)) \X (0..total_pages) :
                    /\ ij[2] >= 1
                    /\ ij[2] <= Len(bp[ij[1]].pages)
                    /\ bp[ij[1]].pages[ij[2]] = p})

\* C6: grouping puts every page of the result map in exactly one bucket or
\* in the orphan map, never both, never neither; a page is in a bucket iff
\* one of its two marker fields is set.
C6_GroupingPartitionsPages ==
    pc = "filter" =>
        /\ \A n \in 1..Len(page_barcodes) :
            LET p == page_barcodes[n].page
                r == page_barcodes[n].result
            IN  IF r.delivery_number # None \/ r.customer_name # None
                THEN Occurrences(barcode_pages, p) = 1 /\ ~HasPage(no_barcode_pages, p)
                ELSE /\ Occurrences(barcode_pages, p) = 0
                     /\ Cardinality({m \in 1..Len(no_barcode_pages) :
                                        no_barcode_pages[m].page = p}) = 1
                     /\ ResultOf(no_barcode_pages, p) = r
        /\ \A p \in 0..(total_pages - 1) :
            (IsMember(barcode_pages, p) \/ HasPage(no_barcode_pages, p))
                => HasPage(page_barcodes, p)

C6_Witness ==
    /\ pc = "filter"
    /\ images = <<CompletePage(K1), EmptyPage, PartialPage>>
    /\ barcode_pages = <<[key |-> K1, pages |-> <<0>>],
                         [key |-> <<DO1, UNKNOWN>>, pages |-> <<2>>]>>
    /\ page_keys(no_barcode_pages) = <<1>>

MarkerOrUnknown(text) == IF text = None THEN UNKNOWN ELSE text
MarkerKey(r) == <<MarkerOrUnknown(r.delivery_number), MarkerOrUnknown(r.customer_name)>>
StrictlyAscending(list) == \A i \in 1..(Len(list) - 1) : list[i] < list[i + 1]

ScenarioA ==
    <<CompletePage(K1), CompletePage(K2), CompletePage(K3), CompletePage(K1),
      CompletePage(K2), CompletePage(K3), CompletePage(K1)>>

ScenarioABuckets ==
    <<[key |-> K1, pages |-> <<0, 3, 6>>],
      [key |-> K2, pages |-> <<1, 4>>],
      [key |-> K3, pages |-> <<2, 5>>]>>

\* C7: grouping puts two member pages in the same bucket iff their
\* (delivery, customer) keys are equal, contiguous or not, each bucket lists
\* its pages in ascending order, and the 7-page document K1 K2 K3 K1 K2 K3 K1
\* ends under Ignore with the buckets [0,3,6], [1,4], [2,5] and no orphan.
C7_GroupingByKey ==
    /\ pc = "filter" =>
        /\ \A n \in 1..Len(page_barcodes), m \in 1..Len(page_barcodes) :
            LET rn == page_barcodes[n].result
                rm == page_barcodes[m].result
            IN  (barcode_count(rn) > 0 /\ barcode_count(rm) > 0) =>
                    ((BucketsOf(barcode_pages, page_barcodes[n].page)
                        = BucketsOf(barcode_pages, page_barcodes[m].page))
                     <=> MarkerKey(rn) = MarkerKey(rm))
        /\ \A i \in 1..Len(barcode_pages) : StrictlyAscending(barcode_pages[i].pages)
    /\ (pc \in {"filter", "done"} /\ handle_mode = "ignore" /\ images = ScenarioA) =>
        /\ barcode_pages = ScenarioABuckets
        /\ no_barcode_pages = <<>>

C7_Witness ==
    /\ pc = "done"
    /\ handle_mode = "ignore"
    /\ images = ScenarioA
    /\ barcode_pages = ScenarioABuckets
    /\ summary.barcode_count = 3

IsComplete(r) ==
    r.delivery_number # None /\ r.customer_name # None /\ r.detection_status = SUCCESS

\* the attempt being made is on an image on which neither the decoder nor
\* the contour scan finds anything
FoundNothing ==
    /\ images[page_num + 1].kind = "fixed"
    /\ ~images[page_num + 1].outcome.raises
    /\ images[page_num + 1].outcome.texts = <<>>
    /\ images[page_num + 1].outcome.potential_patterns = 0

\* C8: an attempt that finds no pattern is classified NoPatternsFound and
\* ends the loop; a page that is empty on its first attempt gets exactly one
\* decode attempt and its final result has status NoPatternsFound,
\* retry_count 0 and no marker field.
C8_EmptyPageNotRetried ==
    [][(DetectAttempt /\ FoundNothing) =>
         /\ result'.detection_status = NO_PATTERNS_FOUND
         /\ page_num' = page_num + 1
         /\ attempt = 0 =>
              /\ decode_calls'[page_num + 1] = 1
              /\ Len(page_barcodes') = Len(page_barcodes) + 1
              /\ LET final == page_barcodes'[Len(page_barcodes')]
                 IN  /\ final.page = page_num
                     /\ final.result.detection_status = NO_PATTERNS_FOUND
                     /\ final.result.retry_count = 0
                     /\ final.result.delivery_number = None
                     /\ final.result.customer_name = None]_vars

\* A step that called the decoder on the current page: exactly the steps of
\* DetectAttempt, the only action that counts a decode call.
Decoded == pc = "extract" /\ decode_calls' # decode_calls

\* C9: an attempt that yields both markers ends the loop at once, and the
\* result returned for the page is that result, with status Success, also at
\* the last allowed attempt.
C9_CompleteAttemptEndsLoop ==
    [][(Decoded /\ IsComplete(result')) =>
         /\ page_num' = page_num + 1
         /\ page_barcodes' = Append(page_barcodes,
                                    [page |-> page_num, result |-> result'])
         /\ result'.detection_status = SUCCESS
         /\ result'.retry_count = attempt]_vars

C9_Witness ==
    /\ pc # "extract"
    /\ max_retries > 0
    /\ Len(page_barcodes) = 1
    /\ page_barcodes[1].result.retry_count = max_retries
    /\ decode_calls[1] = max_retries + 1
    /\ page_barcodes[1].result.detection_status = SUCCESS
    /\ page_barcodes[1].result.delivery_number # None
    /\ page_barcodes[1].result.customer_name # None

\* C10: the loop of a page stops only when the latest attempt is complete,
\* or it found no pattern, or all max_retries + 1 attempts are made; a
\* partial read does not end it while attempts remain.
C10_LoopStopsOnlyWhenDone ==
    [][(DetectAttempt /\ page_num' = page_num + 1) =>
         \/ IsComplete(result')
         \/ result'.detection_status = NO_PATTERNS_FOUND
         \/ attempt = max_retries]_vars

\* C11: when a page uses up all max_retries + 1 attempts and no attempt is
\* complete, the result _detect_with_retry returns has status RetryExhausted
\* and lacks at least one of the two marker fields.
C11_ExhaustedPageMarkedRetryExhausted ==
    [][(DetectAttempt /\ page_num' = page_num + 1 /\ attempt = max_retries
          /\ ~IsComplete(result')) =>
         /\ best_result'.detection_status = RETRY_EXHAUSTED
         /\ (best_result'.delivery_number = None \/ best_result'.customer_name = None)]_vars

\* the decoder returned at least one blank text on the attempt just made:
\* the result carries the count of corrupted entries
HadBlankText(r) == \E n \in 1..(MaxCodes + 1) : r.error_details = CorruptedError(n)

\* C12: an attempt on which the decoder returns at least one blank text, with
\* or without a valid text, gives status PatternsCorrupted with the count of
\* corrupted entries, and the page is retried if attempts remain.
C12_BlankTextGivesPatternsCorrupted ==
    [][(DetectAttempt /\ HadBlankText(result')) =>
         /\ result'.detection_status = PATTERNS_CORRUPTED
         /\ (attempt < max_retries =>
                (page_num' = page_num /\ attempt' = attempt + 1))]_vars

\* b is the result a, its status possibly overridden after the loop
SameRead(a, b) == [a EXCEPT !.detection_status = b.detection_status] = b

\* C13: the result _detect_with_retry returns for a page is the result of one
\* of the attempts made for the page, and no attempt made for the page gave a
\* better result than that one.
C13_ReturnedResultIsBest ==
    [][(Decoded /\ page_num' = page_num + 1) =>
         LET made == Append(attempt_results, result')
         IN  \E i \in 1..Len(made) :
                /\ SameRead(made[i], best_result')
                /\ \A j \in 1..Len(made) : ~is_better_result(made[j], made[i])]_vars

C13_Witness ==
    /\ pc # "extract"
    /\ max_retries = MaxRetries
    /\ decode_calls[1] = max_retries + 1
    /\ result.detection_status = PATTERNS_UNREADABLE
    /\ result.retry_count = max_retries
    /\ best_result.detection_status = PATTERNS_CORRUPTED
    /\ best_result.retry_count < max_retries

\* C14: extract_barcodes_from_pdf returns exactly one result for every page
\* index 0..N-1, also for the pages on which nothing was found and the pages
\* whose processing raised.
C14_OneResultPerPage ==
    /\ Len(page_barcodes) = page_num
    /\ \A i \in 1..Len(page_barcodes) : page_barcodes[i].page = i - 1
    /\ pc # "extract" => page_keys(page_barcodes) = [i \in 1..total_pages |-> i - 1]

C14_Witness ==
    /\ pc = "group"
    /\ images = <<EmptyPage, BrokenImage, CompletePage(K1)>>
    /\ page_keys(page_barcodes) = <<0, 1, 2>>
    /\ page_barcodes[2].result = page_error_result
    /\ ~has_any_barcode(page_barcodes[1].result)

\* processing the page fails: its conversion raises, or the decoder raises at
\* every attempt
FailingPage(img) == img.kind = "broken" \/ (img.kind = "fixed" /\ img.outcome.raises)

\* the page carries the two markers of key k, read at every attempt
ReadablePage(img, k) == img = CompletePage(k)

\* C15: a failure while processing one page is caught: the page gets a result
\* with status PatternsCorrupted and no marker field, and every other page of
\* the document is still processed, whatever failed before it.
C15_PageFailureIsIsolated ==
    /\ \A n \in 1..Len(page_barcodes) :
          LET img == images[page_barcodes[n].page + 1]
              r == page_barcodes[n].result
          IN  /\ FailingPage(img) =>
                    /\ r.detection_status = PATTERNS_CORRUPTED
                    /\ r.delivery_number = None
                    /\ r.customer_name = None
              /\ \A k \in CompleteKeys :
                    ReadablePage(img, k) =>
                        /\ r.detection_status = SUCCESS
                        /\ <<r.delivery_number, r.customer_name>> = k
    /\ pc # "extract" => \A p \in 0..(total_pages - 1) : HasPage(page_barcodes, p)

C15_Witness ==
    /\ pc = "done"
    /\ images = <<BrokenImage, RaisingPage, CompletePage(K1)>>
    /\ page_barcodes[1].result.detection_status = PATTERNS_CORRUPTED
    /\ page_barcodes[2].result.detection_status = PATTERNS_CORRUPTED
    /\ page_barcodes[3].result.delivery_number = DO1
    /\ summary.barcode_count = 1

\* C16: every message the detection engine and the assignment policies send
\* is accepted by the sink, so that no detection result is the error result
\* of a refused call and no policy is cut short by one.
C16_MessagesNeverChangeOutcomes ==
    [][/\ DetectAttempt =>
            /\ result'.error_details # AttributeError
            /\ \A n \in 1..Len(page_barcodes') :
                  page_barcodes'[n].result.error_details # AttributeError
       /\ HandlePages => ~handle_raised']_vars

\* a marker field of the page's final result is missing
LacksMarker(r) == r.delivery_number = None \/ r.customer_name = None

\* C17: a page that ends its retries with one or both marker fields missing
\* is in the orphan map handed to the assignment policy.
C17_IncompletePageIsOrphan ==
    pc \in {"create", "handle"} =>
        \A n \in 1..Len(page_barcodes) :
            LacksMarker(page_barcodes[n].result) =>
                HasPage(no_barcode_pages, page_barcodes[n].page)

\* C18: _filter_valid_barcodes keeps every bucket it is given, the buckets
\* with UNKNOWN in their key included, and reports no invalid page.
C18_FilterKeepsEveryBucket ==
    [][Filter => (barcode_pages' = barcode_pages /\ invalid_pages' = <<>>)]_vars

\* C19: under the Ignore policy the mapping is left as it was before the
\* assignment, and no orphan page is in a bucket or in an output document.
C19_IgnoreIsNoOp ==
    [][(handle_mode = "ignore" /\ pc \in {"handle", "finish"}) =>
         /\ barcode_pages' = barcode_pages
         /\ output_dir' = output_dir
         /\ \A p \in OrphanPages(no_barcode_pages) :
               /\ ~IsMember(barcode_pages', p)
               /\ \A f \in output_dir' : ~InList(p, f.pages)]_vars

C19_Witness ==
    /\ pc = "done"
    /\ handle_mode = "ignore"
    /\ images = <<CompletePage(K1), EmptyPage, CompletePage(K1)>>
    /\ barcode_pages = <<[key |-> K1, pages |-> <<0, 2>>]>>
    /\ page_keys(no_barcode_pages) = <<1>>
    /\ output_dir = {[path |-> create_safe_filename(DO1, ACME), pages |-> <<0, 2>>]}
    /\ summary.no_barcode_pages = 1

SeparateStep == HandlePages /\ handle_mode = "separate"

NoBarcodeBucket(nbp) ==
    [key |-> <<NO_BARCODE, NO_BARCODE>>, pages |-> Ascending(OrphanPages(nbp))]

\* C20 as stated: under the Separate policy the result has exactly one more
\* bucket, keyed (NO_BARCODE, NO_BARCODE), listing all orphan pages in
\* ascending order, and every other bucket is unchanged.
C20_SeparateAddsOneBucket ==
    [][SeparateStep =>
         barcode_pages' = Append(barcode_pages, NoBarcodeBucket(no_barcode_pages))]_vars

\* C20 amended: under the Separate policy, when the document has at least
\* one orphan page the result has exactly one more bucket, keyed (NO_BARCODE,
\* NO_BARCODE), listing all orphan pages in ascending order, and every other
\* bucket is unchanged; with no orphan page the mapping is left as it is.
C20_SeparateAddsOneBucketIfOrphans ==
    [][SeparateStep =>
         IF no_barcode_pages # <<>>
         THEN barcode_pages' = Append(barcode_pages, NoBarcodeBucket(no_barcode_pages))
         ELSE barcode_pages' = barcode_pages]_vars

C20_Witness ==
    /\ pc = "finish"
    /\ handle_mode = "separate"
    /\ ~handle_raised
    /\ images = <<EmptyPage, CompletePage(K1), UnreadablePage>>
    /\ barcode_pages = <<[key |-> K1, pages |-> <<1>>],
                         [key |-> <<NO_BARCODE, NO_BARCODE>>, pages |-> <<0, 2>>]>>

PolicyStep ==
    HandlePages /\ handle_mode \in {"separate", "keep_with_previous", "sequential"}

\* the pages bucket i of after holds beyond those bucket i of before held
Gained(before, after, i) ==
    IF i <= Len(before)
    THEN SubSeq(after[i].pages, Len(before[i].pages) + 1, Len(after[i].pages))
    ELSE after[i].pages

\* C21: applying Separate, KeepWithPrevious or Sequential leaves the mapping
\* and the page lists the caller passed in as they were and returns the
\* updated mapping as a new value, and no two buckets of the result share a
\* page list: a page a bucket gains is gained by that bucket only.
C21_PoliciesAreFunctionalUpdates ==
    [][PolicyStep =>
         /\ caller_barcode_pages' = barcode_pages
         /\ \A i \in 1..Len(barcode_pages'), j \in 1..Len(barcode_pages') :
               i # j => \A n \in 1..Len(Gained(barcode_pages, barcode_pages', i)) :
                           ~InList(Gained(barcode_pages, barcode_pages', i)[n],
                                   Gained(barcode_pages, barcode_pages', j))]_vars

\* the index of the first character of text that is not whitespace, or 0
FirstInk(text) ==
    IF \E i \in 1..Len(text) : text[i] \notin Whitespace
    THEN CHOOSE i \in 1..Len(text) :
            text[i] \notin Whitespace /\ \A j \in 1..(i - 1) : text[j] \in Whitespace
    ELSE 0

DeliveryLike(text) ==
    /\ text # None
    /\ FirstInk(text) > 0
    /\ LET i == FirstInk(text)
       IN  \/ text[i] \in Digits
           \/ /\ i < Len(text)
              /\ text[i] \in {"D", "d"}
              /\ text[i + 1] \in {"O", "o"}

\* C23: is_delivery_number(text) returns true iff text, trimmed and
\* upper-cased, is non-empty and starts with "DO" or with a decimal digit; it
\* returns false for None, the empty string and whitespace-only strings.
C23_DeliveryNumberRule ==
    (call.fn = "is_delivery_number" /\ call.returned) =>
        /\ call.value \in BOOLEAN
        /\ call.value <=> DeliveryLike(call.args[1])

C23_Witness ==
    /\ call.fn = "is_delivery_number"
    /\ call.returned
    /\ call.args = <<<<" ", "d", "O">>>>
    /\ call.value = TRUE

Reserved == {"<", ">", ":", "\"", "/", "\\", "|", "?", "*"}

\* text with each reserved character replaced by "_"
Sanitized(text) ==
    [i \in 1..Len(text) |-> IF text[i] \in Reserved THEN "_" ELSE text[i]]

\* name is first, then "_" and second when second is not <<>>, then ".pdf"
IsFileName(name, first, second, joined) ==
    LET n1 == Len(first)
        n2 == IF joined THEN n1 + 1 + Len(second) ELSE n1
    IN  /\ Len(name) = n2 + 4
        /\ SubSeq(name, 1, n1) = first
        /\ joined => (name[n1 + 1] = "_" /\ SubSeq(name, n1 + 2, n2) = second)
        /\ SubSeq(name, n2 + 1, n2 + 4) = <<".", "p", "d", "f">>

\* C24: _create_safe_filename(delivery, customer) replaces each of the nine
\* reserved characters by "_" in each field and returns
\* "{customer}_{delivery}.pdf" when neither field is UNKNOWN, "{delivery}.pdf"
\* when only the delivery is real, "{customer}.pdf" when only the customer is
\* real and "unknown_barcode.pdf" when neither is; the result holds none of
\* the nine characters.
C24_SafeFilename ==
    (call.fn = "_create_safe_filename" /\ call.returned) =>
        LET delivery == call.args[1]
            customer == call.args[2]
            name == call.value
        IN  /\ \A i \in 1..Len(name) : name[i] \notin Reserved
            /\ LET d == Sanitized(delivery)
                   c == Sanitized(customer)
               IN  IF delivery # UNKNOWN /\ customer # UNKNOWN
                   THEN IsFileName(name, c, d, TRUE)
                   ELSE IF delivery # UNKNOWN THEN IsFileName(name, d, <<>>, FALSE)
                   ELSE IF customer # UNKNOWN THEN IsFileName(name, c, <<>>, FALSE)
                   ELSE name = <<"u", "n", "k", "n", "o", "w", "n", "_",
                                 "b", "a", "r", "c", "o", "d", "e",
                                 ".", "p", "d", "f">>

C24_Witness ==
    /\ call.fn = "_create_safe_filename"
    /\ call.returned
    /\ call.args = <<<<"<", "A">>, <<"?">>>>
    /\ call.value = <<"_", "_", "_", "A", ".", "p", "d", "f">>

RecordsFor(path) ==
    {n \in 1..Len(extraction_details) : extraction_details[n].OutputPath = path}

\* C25: a run emits one audit record per bucket that gets an output document,
\* the NO_BARCODE bucket of the Separate policy included, and the records
\* carry the sequence numbers 1, 2, ..., k in emission order, also when
\* writing the document of some bucket fails.
C25_OneAuditRecordPerDocument ==
    pc = "done" =>
        /\ \A n \in 1..Len(extraction_details) : extraction_details[n].SequenceNo = n
        /\ \A i \in 1..Len(barcode_pages) :
              HasFile(output_dir, output_path_of(barcode_pages[i].key)) =>
                  Cardinality(RecordsFor(output_path_of(barcode_pages[i].key))) = 1
        /\ \A n \in 1..Len(extraction_details) :
              /\ HasFile(output_dir, extraction_details[n].OutputPath)
              /\ \E i \in 1..Len(barcode_pages) :
                    output_path_of(barcode_pages[i].key) = extraction_details[n].OutputPath

\* the number of results of the map that satisfy P
CountIf(page_barcodes_, P(_)) ==
    Cardinality({i \in 1..Len(page_barcodes_) : P(page_barcodes_[i].result)})

RECURSIVE SumOf(_, _)
SumOf(page_barcodes_, field) ==
    IF page_barcodes_ = <<>> THEN 0
    ELSE Head(page_barcodes_).result[field] + SumOf(Tail(page_barcodes_), field)

HasMarker(r) == r.delivery_number # None \/ r.customer_name # None

DerivedTotals(m, stats) ==
    /\ stats.total_pages = Len(m)
    /\ stats.pages_with_barcodes = CountIf(m, HasMarker)
    /\ stats.pages_complete_barcodes = CountIf(m, IsComplete)
    /\ stats.total_patterns_found = SumOf(m, "patterns_found")
    /\ stats.total_readable_patterns = SumOf(m, "readable_patterns")

BreakdownGives(m, stats, s) ==
    /\ status_key(s) \in DOMAIN stats
    /\ stats[status_key(s)] =
          Cardinality({i \in 1..Len(m) : m[i].result.detection_status = s})

CountedStatuses ==
    {NO_PATTERNS_FOUND, PATTERNS_UNREADABLE, PATTERNS_CORRUPTED, RETRY_EXHAUSTED}

\* C26 as stated: the statistics are derived from the result map: the number
\* of results, of results with a marker field, of complete results, the sums
\* of patterns_found and of readable_patterns, and for each detection status
\* the number of pages that have it.
C26_StatisticsCountEveryStatus ==
    (call.fn = "get_detection_statistics" /\ call.returned) =>
        /\ DerivedTotals(call.args[1], call.value)
        /\ \A s \in BarcodeDetectionStatus : BreakdownGives(call.args[1], call.value, s)

\* C26 amended: as above, the breakdown giving the number of pages for each
\* of the statuses NoPatternsFound, PatternsUnreadable, PatternsCorrupted and
\* RetryExhausted; Success and MultipleConflicts have no counter.
C26_StatisticsCountFourStatuses ==
    (call.fn = "get_detection_statistics" /\ call.returned) =>
        /\ DerivedTotals(call.args[1], call.value)
        /\ \A s \in CountedStatuses : BreakdownGives(call.args[1], call.value, s)
        /\ \A s \in BarcodeDetectionStatus \ CountedStatuses :
              status_key(s) \notin DOMAIN call.value

C26_Witness ==
    /\ call.fn = "get_detection_statistics"
    /\ call.returned
    /\ Len(call.args[1]) = 2
    /\ call.args[1][1].result.detection_status = SUCCESS
    /\ IsComplete(call.args[1][1].result)
    /\ call.args[1][2].result.detection_status = PATTERNS_UNREADABLE
    /\ call.value.pages_complete_barcodes = 1
    /\ call.value.pages_unreadable_patterns = 1
    /\ call.value.total_patterns_found = 4

\* C27: whatever the decoder does, _detect_with_retry makes at least one and
\* at most max_retries + 1 decode attempts for a page, and the attempt that
\* ends the loop, the (max_retries + 1)-th at the latest, returns a result
\* for the page.
C27_AttemptsAreBounded ==
    [][Decoded =>
         /\ decode_calls'[page_num + 1] = attempt + 1
         /\ decode_calls'[page_num + 1] >= 1
         /\ decode_calls'[page_num + 1] <= max_retries + 1
         /\ attempt = max_retries => page_num' = page_num + 1
         /\ page_num' = page_num + 1 =>
               /\ best_result' \in {[r EXCEPT !.detection_status = s] :
                                      r \in {result'} \cup {attempt_results[i] :
                                                             i \in 1..Len(attempt_results)},
                                      s \in BarcodeDetectionStatus}
               /\ Len(page_barcodes') = Len(page_barcodes) + 1
               /\ page_barcodes'[Len(page_barcodes')].page = page_num]_vars

C27_Witness ==
    /\ pc = "group"
    /\ max_retries = MaxRetries
    /\ decode_calls = <<MaxRetries + 1>>
    /\ Len(page_barcodes) = 1
    /\ result.retry_count = MaxRetries
    /\ result.detection_status = PATTERNS_CORRUPTED

Priority(s) ==
    CASE s = "success" -> 5
      [] s = "patterns_corrupted" -> 4
      [] s = "patterns_unreadable" -> 3
      [] s = "multiple_conflicts" -> 2
      [] s = "no_patterns_found" -> 1
      [] s = "retry_exhausted" -> 0

MarkerCount(r) ==
    Cardinality({f \in {"delivery_number", "customer_name"} : r[f] # None})

Better(current, previous) ==
    \/ IsComplete(current) /\ ~IsComplete(previous)
    \/ /\ IsComplete(current) = IsComplete(previous)
       /\ \/ MarkerCount(current) > MarkerCount(previous)
          \/ /\ MarkerCount(current) = MarkerCount(previous)
             /\ Priority(current.detection_status) > Priority(previous.detection_status)

C29_NeedsRetryRule ==
    (call.fn = "needs_retry" /\ call.returned) =>
        LET status == call.args[1].detection_status
        IN  /\ status \in {"patterns_unreadable", "patterns_corrupted"} => call.value = TRUE
            /\ status \in {"success", "no_patterns_found", "multiple_conflicts",
                           "retry_exhausted"} => call.value = FALSE
            /\ call.value \in BOOLEAN

C29_Witness ==
    /\ call.fn = "needs_retry"
    /\ call.returned
    /\ call.args[1].detection_status = RETRY_EXHAUSTED
    /\ call.args[1].delivery_number = None
    /\ call.args[1].patterns_found = 2
    /\ call.value = FALSE

\* C31: on the same buckets, orphan pages and page count, the traversals
\* _assign_to_previous_barcode, _assign_sequentially and
\* _assign_sequentially_enhanced return identical bucket mappings.
C31_TraversalsAgree ==
    pc = "handle" =>
        LET previous == assign_to_previous_barcode(barcode_pages,
                                                   page_keys(no_barcode_pages),
                                                   total_pages)
            plain == assign_sequentially(barcode_pages, page_keys(no_barcode_pages),
                                         total_pages)
            enhanced == assign_sequentially_enhanced(barcode_pages, no_barcode_pages,
                                                     total_pages)
        IN  /\ plain = previous
            /\ ~enhanced.raised
            /\ enhanced.barcode_pages = previous

DetectionPending == \E p \in 0..(total_pages - 1) : ~HasPage(page_barcodes, p)

\* C33: grouping, assignment and output planning start only after the
\* detection of every page has completed: while some page still has no
\* result, no bucket is formed, no orphan page is listed, no CSV record is
\* made and no output document is written.
C33_JoinBarrier ==
    DetectionPending =>
        /\ pc = "extract"
        /\ barcode_pages = <<>>
        /\ no_barcode_pages = <<>>
        /\ invalid_pages = <<>>
        /\ extraction_details = <<>>
        /\ output_dir = {}
        /\ summary = NoSummary

C33_Witness ==
    /\ pc = "create"
    /\ images = <<CompletePage(K1), EmptyPage, UnreadablePage>>
    /\ ~DetectionPending
    /\ decode_calls[3] = DefaultMaxRetries + 1
    /\ barcode_pages # <<>>
    /\ Len(no_barcode_pages) = 2
    /\ output_dir = {}

\* no page index occurs twice in the page lists of the mapping bp
NoPageTwice(bp) ==
    \A i, j \in 1..Len(bp) :
        \A m \in 1..Len(bp[i].pages), n \in 1..Len(bp[j].pages) :
            bp[i].pages[m] = bp[j].pages[n] => (i = j /\ m = n)

\* C34: after grouping and after applying any assignment policy, no page
\* index occurs in two different buckets and none occurs twice in the page
\* list of one bucket, in the mapping the run holds and in the one the
\* policy was handed.
C34_NoPageInTwoBuckets ==
    /\ NoPageTwice(barcode_pages)
    /\ NoPageTwice(caller_barcode_pages)

C34_Witness ==
    /\ pc = "finish"
    /\ handle_mode = "keep_with_previous"
    /\ images = <<CompletePage(K1), EmptyPage, CompletePage(K2)>>
    /\ barcode_pages = <<[key |-> K1, pages |-> <<0, 1>>], [key |-> K2, pages |-> <<2>>]>>
    /\ NoPageTwice(barcode_pages)

\* the document written for bucket i of bp is in the output directory
HasOwnDocument(dir, bp, i) ==
    \E f \in dir : /\ f.path = output_path_of(bp[i].key)
                   /\ f.pages = sorted(bp[i].pages)

\* C35: within one run two distinct bucket keys never get the same output
\* filename, so that, once the documents are written without a failed save,
\* the document of every bucket is in the output directory, none overwritten
\* by the document of another bucket.
C35_DistinctKeysDistinctFiles ==
    /\ \A i, j \in 1..Len(barcode_pages) :
          barcode_pages[i].key # barcode_pages[j].key =>
              output_path_of(barcode_pages[i].key) # output_path_of(barcode_pages[j].key)
    /\ (pc = "handle" /\ ~write_failed) =>
          \A i \in 1..Len(barcode_pages) : HasOwnDocument(output_dir, barcode_pages, i)

\* the attempt just made was the last one for the page: _detect_with_retry
\* returned
Returns == Decoded /\ page_num' = page_num + 1

\* C36: the retry_count of the result _detect_with_retry returns equals the
\* number of retries performed for the page, the index of the last attempt
\* made.
C36_RetryCountIsLastAttempt ==
    [][Returns => best_result'.retry_count = attempt]_vars

\* the handler of the run has been through the policy: it opened the
\* document, and what it caught, if anything, was raised by the policy
PolicyApplied(mode) ==
    /\ pc \in {"finish", "done"}
    /\ handle_mode = mode
    /\ handle_raised => mode = "sequential"

\* C37: KeepWithPrevious and Sequential are idempotent: applied again to the
\* mapping the policy left, with the same orphan pages and page count, each
\* traversal leaves every bucket as it is, no page being appended a second
\* time.
C37_PoliciesAreIdempotent ==
    /\ PolicyApplied("keep_with_previous") =>
          assign_to_previous_barcode(barcode_pages, page_keys(no_barcode_pages),
                                     total_pages) = barcode_pages
    /\ PolicyApplied("sequential") =>
          assign_sequentially_enhanced(barcode_pages, no_barcode_pages,
                                       total_pages).barcode_pages = barcode_pages

C37_Witness ==
    /\ PolicyApplied("keep_with_previous")
    /\ images = <<CompletePage(K1), EmptyPage, UnreadablePage>>
    /\ barcode_pages = <<[key |-> K1, pages |-> <<0, 1, 2>>]>>
    /\ page_keys(no_barcode_pages) = <<1, 2>>
    /\ assign_to_previous_barcode(barcode_pages, <<1, 2>>, 3) = barcode_pages

\* the pages of the document that are in no bucket of the returned results
PagesInNoBucket(results) ==
    {p \in 0..(total_pages - 1) :
        ~\E i \in 1..Len(results) : InList(p, results[i].pages)}

\* C38: under every policy the no_barcode_pages count in the result of
\* process_pdf equals the number of pages of the document that are in no
\* bucket of the returned results.
C38_CountIsPagesInNoBucket ==
    pc = "done" =>
        summary.no_barcode_pages = Cardinality(PagesInNoBucket(summary.results))

\* handle_pages_without_barcodes returns having caught an exception
HandlerCatches == pc = "handle" /\ handle_raised'

\* C39: when handle_pages_without_barcodes hits an exception while applying
\* a policy, the exception does not leave the handler: process_pdf goes on
\* with the bucket mapping exactly as it was passed in, no orphan page
\* reassigned, in the returned mapping as in the caller's.
C39_HandlerFailureLeavesMapping ==
    [][HandlerCatches =>
          /\ pc' = "finish"
          /\ barcode_pages' = barcode_pages
          /\ caller_barcode_pages' = barcode_pages]_vars

C39_Witness ==
    /\ pc = "done"
    /\ handle_mode = "sequential"
    /\ handle_raised
    /\ images = <<CompletePage(K1), EmptyPage, CompletePage(K2)>>
    /\ page_keys(no_barcode_pages) = <<1>>
    /\ barcode_pages = <<[key |-> K1, pages |-> <<0>>], [key |-> K2, pages |-> <<2>>]>>
    /\ summary.barcode_count = 2

====
